---------------------------- MODULE Spec2Model ----------------------------
(***************************************************************************)
(* The portfolio-optimization tutorial notebook                            *)
(* (tutorials/01_portfolio_optimization.ipynb) as a state machine.         *)
(*                                                                         *)
(* The state is the kernel's global namespace (num_assets, mu, sigma, q,   *)
(* budget, penalty, qubitOp, offset, result), the helper functions once    *)
(* their cell has run, what the solver cells have printed, and the         *)
(* exception, if any, that ended the cell run last.  One action stands for *)
(* one code cell: it does everything the cell does, the print_result call  *)
(* at its end included.                                                    *)
(*                                                                         *)
(* Numbers.  mu and sigma are integer valued.  q and every value derived   *)
(* from it (portfolio values, the operator's energies, the offset) are     *)
(* fixed-point numbers counted in units of 1/FourDecimals, the precision   *)
(* of the '%.4f' conversions that print them: 16.0000 is 160000.           *)
(* Probabilities |amplitude|^2 are counted in units of 1/ProbUnits.        *)
(* Vectors are functions on 0..n-1, as the code indexes them.              *)
(***************************************************************************)
EXTENDS Integers, Sequences, FiniteSets, TLC

VARIABLES names, num_assets, mu, sigma, q, budget, penalty, qubitOp, offset,
          result, optimalLine, fullResult, raised, pc, call, ret

globals == <<num_assets, mu, sigma, q, budget, penalty, qubitOp, offset>>
notebook == <<names, num_assets, mu, sigma, q, budget, penalty, qubitOp,
              offset, result, optimalLine, fullResult, raised, pc>>
vars == <<names, num_assets, mu, sigma, q, budget, penalty, qubitOp, offset,
          result, optimalLine, fullResult, raised, pc, call, ret>>

-----------------------------------------------------------------------------
(* Bounds of the model.                                                    *)

\* The values the data cell gives num_assets.  The notebook's literal is 4;
\* with 4 assets the run has more states than an exhaustive search can
\* visit, so the model runs the notebook for one asset and for two.
AssetCounts == {1, 2}

\* Every entry of mu lies in -MaxReturn..MaxReturn.
MaxReturn == 2

\* An eigenstate's probabilities are multiples of 1/ProbUnits.
ProbUnits == 3

\* index_to_selection is applied, on its own, to i in 0..MaxIndex and
\* num_assets in 0..MaxBits.
MaxIndex == 19

MaxBits == 4

\* Precision of '%.4f'.
FourDecimals == 10000

-----------------------------------------------------------------------------
(* Arithmetic helpers.                                                     *)

RECURSIVE Pow2(_)
Pow2(n) == IF n <= 0 THEN 1 ELSE 2 * Pow2(n - 1)

\* int(np.log2(len)) for a length that is a power of two.
RECURSIVE Log2(_)
Log2(len) == IF len <= 1 THEN 0 ELSE 1 + Log2(len \div 2)

Len0(f) == Cardinality(DOMAIN f)

RECURSIVE SumTo(_, _)
\* f[0] + ... + f[n-1]
SumTo(f, n) == IF n <= 0 THEN 0 ELSE f[n - 1] + SumTo(f, n - 1)

Sum(f) == SumTo(f, Len0(f))

Selections(n) == [0 .. n - 1 -> {0, 1}]

Solvers == {"exact", "vqe", "qaoa"}

-----------------------------------------------------------------------------
(* The library calls of the notebook.                                      *)

portfolio_variance(x, sig) ==
    SumTo([i \in DOMAIN x |-> SumTo([j \in DOMAIN x |-> x[i] * sig[i][j] * x[j]],
                                    Len0(x))], Len0(x))

portfolio_expected_value(x, m) == SumTo([i \in DOMAIN x |-> m[i] * x[i]], Len0(x))

\* q * x^T sigma x - mu^T x, in units of 1/FourDecimals.
Objective(x, m, sig, qq) ==
    qq * portfolio_variance(x, sig) - FourDecimals * portfolio_expected_value(x, m)

\* portfolio.portfolio_value(x, mu, sigma, q, budget, penalty): the objective
\* with the budget penalty added.
portfolio_value(x, m, sig, qq, b, pen) ==
    Objective(x, m, sig, qq) + FourDecimals * pen * (Sum(x) - b) * (Sum(x) - b)

\* The computational basis state k of n qubits as a selection: qubit i
\* (asset i) is bit i of k.
BasisSelection(k, n) == [i \in 0 .. n - 1 |-> (k \div Pow2(i)) % 2]

\* portfolio.get_operator(mu, sigma, q, budget, penalty): the Ising operator
\* and the scalar offset.  The operator is diagonal in the computational
\* basis; it is kept as its diagonal.  Operator plus offset is the
\* portfolio value, and the offset is the operator's identity part, the
\* mean of the portfolio value over all basis states.
get_operator(m, sig, qq, b, pen) ==
    LET n == Len0(m)
        val(k) == portfolio_value(BasisSelection(k, n), m, sig, qq, b, pen)
        off == SumTo([k \in 0 .. Pow2(n) - 1 |-> val(k)], Pow2(n)) \div Pow2(n)
    IN  [op |-> [num_qubits |-> n,
                 diag |-> [k \in 0 .. Pow2(n) - 1 |-> val(k) - off]],
         offset |-> off]

RECURSIVE Spread(_, _)
\* Every way to spread `quanta` quanta of probability over `len` basis
\* states, as tuples.
Spread(len, quanta) ==
    IF len = 0 THEN (IF quanta = 0 THEN {<<>>} ELSE {})
    ELSE UNION {{Append(c, t) : c \in Spread(len - 1, quanta - t)} :
                    t \in 0 .. quanta}

\* The eigenstates of n qubits, by their probabilities: 2^n probabilities,
\* multiples of 1/ProbUnits, that sum to one.
Distributions(n) ==
    {[k \in 0 .. Pow2(n) - 1 |-> c[k + 1]] : c \in Spread(Pow2(n), ProbUnits)}

\* The basis states of least energy.
GroundStates(op) ==
    {k \in DOMAIN op.diag : \A j \in DOMAIN op.diag : op.diag[k] <= op.diag[j]}

\* The state vector of basis state k: probability 1 on k.
BasisState(k, n) == [j \in 0 .. Pow2(n) - 1 |-> IF j = k THEN ProbUnits ELSE 0]

\* The basis states of greatest energy.
HighestStates(op) ==
    {k \in DOMAIN op.diag : \A j \in DOMAIN op.diag : op.diag[j] <= op.diag[k]}

\* The exact solver taking the greatest eigenvalue.
HighestEigenstates(op) ==
    {[kind |-> "StateFn", prob |-> BasisState(k, op.num_qubits)] :
        k \in HighestStates(op)}

\* The exact solver taking an eigenvector of any eigenvalue.
AnyBasisEigenstates(op) ==
    {[kind |-> "StateFn", prob |-> BasisState(k, op.num_qubits)] :
        k \in DOMAIN op.diag}

\* NumPyMinimumEigensolver().compute_minimum_eigenvalue(op).eigenstate: an
\* eigenvector of the least eigenvalue, handed back as a StateFn.  The
\* operator is diagonal and its eigenvectors come back as basis states (the
\* recorded tables show 1.0000 once and every 0.0000 row in index order);
\* when several basis states share the least energy it is one of them.
ExactEigenstates(op) ==
    {[kind |-> "StateFn", prob |-> BasisState(k, op.num_qubits)] :
        k \in GroundStates(op)}

\* A variational solver whose ansatz has one qubit less than the operator.
VariationalEigenstatesOneQubitShort(op) ==
    {[kind |-> "ndarray", prob |-> p] : p \in Distributions(op.num_qubits - 1)}

\* VQE(...) and QAOA(...).compute_minimum_eigenvalue(op).eigenstate on the
\* statevector simulator: a normalised state vector (an ndarray) of the
\* operator's qubits.  Both are heuristics; nothing ties the state they end
\* in to the ground state.
VariationalEigenstates(op) ==
    {[kind |-> "ndarray", prob |-> p] : p \in Distributions(op.num_qubits)}

\* The indices of greatest probability.
MostLikely(p) == {k \in DOMAIN p : \A j \in DOMAIN p : p[j] <= p[k]}

Least(S) == CHOOSE k \in S : \A j \in S : k <= j

\* sample_most_likely sampling whatever it is given: any index of greatest
\* probability can win.
sample_most_likely_sampled(eigenstate) ==
    {BasisSelection(k, Log2(Len0(eigenstate.prob))) : k \in MostLikely(eigenstate.prob)}

\* OptimizationApplication.sample_most_likely(eigenstate): the possible
\* return values.  For an ndarray, np.argmax takes the first index of
\* greatest |amplitude| and its bits are shifted out, least significant
\* first.  For a StateFn the state is sampled and the bitstring drawn most
\* often is read back to front: any index of greatest probability can win.
sample_most_likely(eigenstate) ==
    LET n == Log2(Len0(eigenstate.prob))
        top == IF eigenstate.kind = "ndarray"
               THEN {Least(MostLikely(eigenstate.prob))}
               ELSE MostLikely(eigenstate.prob)
    IN  {BasisSelection(k, n) : k \in top}

-----------------------------------------------------------------------------
(* The helper cell: index_to_selection and print_result.                   *)

RECURSIVE format_b(_)
\* "{0:b}".format(i): the binary digits of i, most significant first.
format_b(i) ==
    IF i < 2 THEN <<IF i = 1 THEN "1" ELSE "0">>
    ELSE Append(format_b(i \div 2), IF i % 2 = 1 THEN "1" ELSE "0")

\* s.rjust(width): s padded with blanks on the left, or s itself when it is
\* already that long.
rjust(s, width) ==
    IF Len(s) >= width THEN s ELSE [j \in 1 .. width - Len(s) |-> " "] \o s

\* index_to_selection without reversed(...): entry k read from s[k].
index_to_selection_forward(i, n) ==
    LET s == rjust(format_b(i), n)
    IN  [k \in 0 .. n - 1 |-> IF s[k + 1] = "1" THEN 1 ELSE 0]

\* index_to_selection with the digits padded on the right (ljust).
index_to_selection_ljust(i, n) ==
    LET b == format_b(i)
        s == IF Len(b) >= n THEN b ELSE b \o [j \in 1 .. n - Len(b) |-> " "]
    IN  [k \in 0 .. n - 1 |-> IF s[(n - 1 - k) + 1] = "1" THEN 1 ELSE 0]

\* index_to_selection reading the last num_assets digits of s: entry k is
\* bit k of i whatever the length of s.
index_to_selection_low_bits(i, n) ==
    LET s == rjust(format_b(i), n)
    IN  [k \in 0 .. n - 1 |-> IF s[Len(s) - k] = "1" THEN 1 ELSE 0]

\* index_to_selection(i, num_assets).  The comprehension walks
\* reversed(range(num_assets)): entry k of x is read from s[num_assets-1-k]
\* (s is indexed from 0 in the code, from 1 here).
index_to_selection(i, n) ==
    LET s == rjust(format_b(i), n)
    IN  [k \in 0 .. n - 1 |-> IF s[(n - 1 - k) + 1] = "1" THEN 1 ELSE 0]

\* argsort in descending order of probability.
argsort_descending(p) ==
    LET before(j, i) == p[j] > p[i] \/ (p[j] = p[i] /\ j < i)
        rank(i) == Cardinality({j \in DOMAIN p : before(j, i)})
    IN  [r \in 0 .. Len0(p) - 1 |-> CHOOSE i \in DOMAIN p : rank(i) = r]

\* np.argsort(probabilities): the indices in ascending order of probability,
\* equal probabilities in ascending order of index (the order of the
\* recorded outputs, where the rows of probability 0.0000 come out by
\* descending index once reversed).
argsort(p) ==
    LET before(j, i) == p[j] < p[i] \/ (p[j] = p[i] /\ j < i)
        rank(i) == Cardinality({j \in DOMAIN p : before(j, i)})
    IN  [r \in 0 .. Len0(p) - 1 |-> CHOOSE i \in DOMAIN p : rank(i) = r]

\* reversed(...) left out.
not_reversed(a) == a

\* reversed(...)
reversed(a) == [r \in 0 .. Len0(a) - 1 |-> a[Len0(a) - 1 - r]]

\* print_result with budget and penalty handed to portfolio_value in each
\* other's place.
print_result_swapped(res) ==
    LET probabilities == res.eigenstate.prob
        i_sorted == reversed(argsort(probabilities))
        row(i) ==
            LET x == index_to_selection(i, num_assets)
            IN  [x |-> x,
                 value |-> portfolio_value(x, mu, sigma, q, penalty, budget),
                 probability |-> probabilities[i]]
    IN  {[optimal |-> [selection |-> selection,
                       value |-> portfolio_value(selection, mu, sigma, q,
                                                 penalty, budget)],
          rows |-> [r \in 1 .. Len0(i_sorted) |-> row(i_sorted[r - 1])]] :
            selection \in sample_most_likely(res.eigenstate)}

\* print_result whose loop values the selection of the 'Optimal' line
\* instead of x.
print_result_stale(res) ==
    LET probabilities == res.eigenstate.prob
        i_sorted == reversed(argsort(probabilities))
        row(i, selection) ==
            LET x == index_to_selection(i, num_assets)
            IN  [x |-> x,
                 value |-> portfolio_value(selection, mu, sigma, q, budget,
                                           penalty),
                 probability |-> probabilities[i]]
    IN  {[optimal |-> [selection |-> selection,
                       value |-> portfolio_value(selection, mu, sigma, q,
                                                 budget, penalty)],
          rows |-> [r \in 1 .. Len0(i_sorted) |->
                       row(i_sorted[r - 1], selection)]] :
            selection \in sample_most_likely(res.eigenstate)}

\* print_result(result): what one call can print, the 'Optimal' line and
\* the rows of the full table in the order printed.  It reads num_assets,
\* mu, sigma, q, budget and penalty from the globals when it is called.
print_result(res) ==
    LET probabilities == res.eigenstate.prob
        i_sorted == reversed(argsort(probabilities))
        row(i) ==
            LET x == index_to_selection(i, num_assets)
            IN  [x |-> x,
                 value |-> portfolio_value(x, mu, sigma, q, budget, penalty),
                 probability |-> probabilities[i]]
    IN  {[optimal |-> [selection |-> selection,
                       value |-> portfolio_value(selection, mu, sigma, q,
                                                 budget, penalty)],
          rows |-> [r \in 1 .. Len0(i_sorted) |-> row(i_sorted[r - 1])]] :
            selection \in sample_most_likely(res.eigenstate)}

-----------------------------------------------------------------------------
(* The kernel after the import cell: no global of the notebook is bound.   *)

NoResult == [eigenstate |-> [kind |-> "none", prob |-> <<>>]]

NoCall == [i |-> 0, num_assets |-> 0]

FreshKernel ==
    /\ names = {}
    /\ num_assets = 0
    /\ mu = <<>>
    /\ sigma = <<>>
    /\ q = 0
    /\ budget = 0
    /\ penalty = 0
    /\ qubitOp = [num_qubits |-> 0, diag |-> <<>>]
    /\ offset = 0
    /\ result = NoResult
    /\ optimalLine = [s \in Solvers |-> <<>>]
    /\ fullResult = [by |-> "none", rows |-> <<>>]
    /\ raised = "none"
    /\ pc = "data"

Init ==
    /\ FreshKernel
    /\ call = NoCall
    /\ ret = <<>>

\* How an asset moves with the one market factor behind the synthetic
\* series: against it, not at all, with it.
Loadings == {-1, 0, 1}

\* The data cell: num_assets, then the mean vector and the covariance
\* matrix of the random series.  The covariance matrix is symmetric and
\* positive semidefinite: sigma[i][j] is the product of the two loadings.
\* The random series are drawn with mean returns in `returns` and loadings
\* in `loadings`.
RunDataCell(returns, loadings) ==
    /\ \E n \in AssetCounts :
        \E m \in [0 .. n - 1 -> returns] :
        \E f \in [0 .. n - 1 -> loadings] :
            /\ num_assets' = n
            /\ mu' = m
            /\ sigma' = [i \in 0 .. n - 1 |-> [j \in 0 .. n - 1 |-> f[i] * f[j]]]
    /\ names' = names \cup {"num_assets", "stocks", "data", "mu", "sigma"}
    /\ raised' = "none"
    /\ UNCHANGED <<q, budget, penalty, qubitOp, offset, result, optimalLine,
                   fullResult, call, ret>>

DataCell ==
    /\ pc = "data"
    /\ RunDataCell(-MaxReturn .. MaxReturn, Loadings)
    /\ pc' = "params"

\* The parameter cell with budget = num_assets.
ParamCellWholeBudget ==
    /\ pc = "params"
    /\ {"num_assets", "mu", "sigma"} \subseteq names
    /\ q' = FourDecimals \div 2
    /\ budget' = num_assets
    /\ penalty' = num_assets
    /\ LET got == get_operator(mu, sigma, q', budget', penalty')
       IN  qubitOp' = got.op /\ offset' = got.offset
    /\ names' = names \cup {"q", "budget", "penalty", "qubitOp", "offset"}
    /\ raised' = "none"
    /\ pc' = "helpers"
    /\ UNCHANGED <<num_assets, mu, sigma, result, optimalLine, fullResult,
                   call, ret>>

\* The parameter cell with penalty = -num_assets.
ParamCellNegativePenalty ==
    /\ pc = "params"
    /\ {"num_assets", "mu", "sigma"} \subseteq names
    /\ q' = FourDecimals \div 2
    /\ budget' = num_assets \div 2
    /\ penalty' = -num_assets
    /\ LET got == get_operator(mu, sigma, q', budget', penalty')
       IN  qubitOp' = got.op /\ offset' = got.offset
    /\ names' = names \cup {"q", "budget", "penalty", "qubitOp", "offset"}
    /\ raised' = "none"
    /\ pc' = "helpers"
    /\ UNCHANGED <<num_assets, mu, sigma, result, optimalLine, fullResult,
                   call, ret>>

\* The parameter cell: q = 0.5, budget = num_assets // 2,
\* penalty = num_assets, then the operator and its offset.
RunParamCell ==
    /\ {"num_assets", "mu", "sigma"} \subseteq names
    /\ q' = FourDecimals \div 2
    /\ budget' = num_assets \div 2
    /\ penalty' = num_assets
    /\ LET got == get_operator(mu, sigma, q', budget', penalty')
       IN  qubitOp' = got.op /\ offset' = got.offset
    /\ names' = names \cup {"q", "budget", "penalty", "qubitOp", "offset"}
    /\ raised' = "none"
    /\ UNCHANGED <<num_assets, mu, sigma, result, optimalLine, fullResult,
                   call, ret>>

ParamCell ==
    /\ pc = "params"
    /\ RunParamCell
    /\ pc' = "helpers"

\* The helper cell binds the two functions.
HelperCell ==
    /\ pc = "helpers"
    /\ names' = names \cup {"index_to_selection", "print_result"}
    /\ raised' = "none"
    /\ pc' = "exact"
    /\ UNCHANGED <<globals, result, optimalLine, fullResult, call, ret>>

\* The names print_result needs bound when it runs.
PrintNames ==
    {"index_to_selection", "print_result", "num_assets", "mu", "sigma", "q",
     "budget", "penalty"}

\* The names a solver cell binds ahead of its compute_minimum_eigenvalue
\* call.
SolverNames(solver) ==
    IF solver = "exact" THEN {"exact_eigensolver"}
    ELSE IF solver = "vqe"
         THEN {"backend", "seed", "cobyla", "ry", "quantum_instance", "vqe"}
         ELSE {"backend", "seed", "cobyla", "quantum_instance", "qaoa"}

\* print_result(res) raises ahead of its first print: sample_most_likely
\* hands back one entry per qubit of the eigenstate, and portfolio_value
\* multiplies it with mu and sigma, which numpy refuses when the lengths
\* differ.
print_result_raises(res) == Log2(Len0(res.eigenstate.prob)) # Len0(mu)

\* A solver cell with print_result(result) ahead of the assignment: once
\* result is bound, the table shows the result of the cell before.
SolveAndPrintEarlier(solver, eigenstates) ==
    /\ {"qubitOp"} \cup PrintNames \subseteq names
    /\ \E e \in eigenstates :
        /\ result' = [eigenstate |-> e]
        /\ \E out \in print_result(IF "result" \in names THEN result ELSE result') :
            /\ optimalLine' = [optimalLine EXCEPT ![solver] = <<out.optimal>>]
            /\ fullResult' = [by |-> solver, rows |-> out.rows]
    /\ raised' = "none"
    /\ names' = names \cup SolverNames(solver) \cup {"result"}
    /\ UNCHANGED <<globals, call, ret>>

\* The two statements every solver cell ends in:
\*   result = <solver>.compute_minimum_eigenvalue(qubitOp)
\*   print_result(result)
\* When print_result raises the cell ends there, with result assigned and
\* nothing printed.
SolveAndPrint(solver, eigenstates) ==
    /\ {"qubitOp"} \cup PrintNames \subseteq names
    /\ \E e \in eigenstates :
        /\ result' = [eigenstate |-> e]
        /\ IF print_result_raises(result')
           THEN /\ raised' = "portfolio_value"
                /\ UNCHANGED <<optimalLine, fullResult>>
           ELSE /\ raised' = "none"
                /\ \E out \in print_result(result') :
                    /\ optimalLine' = [optimalLine EXCEPT ![solver] = <<out.optimal>>]
                    /\ fullResult' = [by |-> solver, rows |-> out.rows]
    /\ names' = names \cup SolverNames(solver) \cup {"result"}
    /\ UNCHANGED <<globals, call, ret>>

ExactCell ==
    /\ pc = "exact"
    /\ SolveAndPrint("exact", ExactEigenstates(qubitOp))
    /\ pc' = "vqe"

VQECell ==
    /\ pc = "vqe"
    /\ SolveAndPrint("vqe", VariationalEigenstates(qubitOp))
    /\ pc' = "qaoa"

QAOACell ==
    /\ pc = "qaoa"
    /\ SolveAndPrint("qaoa", VariationalEigenstates(qubitOp))
    /\ pc' = "done"

Next ==
    \/ DataCell
    \/ ParamCell
    \/ HelperCell
    \/ ExactCell
    \/ VQECell
    \/ QAOACell

\* Run All: the code cells once each, in notebook order.
Spec == Init /\ [][Next]_vars

-----------------------------------------------------------------------------
(* The notebook run by hand.  The cells are run from the top, one after    *)
(* the other.  Before the first solver cell is run, the data cell and the  *)
(* parameter cell can be run again, any number of times; a solver can      *)
(* raise, after which the next cell is run all the same; and               *)
(* print_result(result) can be called once more.                           *)

\* The mean returns and the loadings of the series drawn in these runs.
KernelReturns == {0, 1}

KernelLoadings == {1}

\* The solver cells, and the cell that follows each.
After == [exact |-> "vqe", vqe |-> "qaoa", qaoa |-> "done"]

FirstDataCell ==
    /\ pc = "data"
    /\ RunDataCell(KernelReturns, KernelLoadings)
    /\ pc' = "params"

\* The data cell run again, the later cells not.
RerunDataCell ==
    /\ pc = "exact"
    /\ RunDataCell(KernelReturns, KernelLoadings)
    /\ UNCHANGED pc

\* The parameter cell run again, the later cells not.
RerunParamCell ==
    /\ pc = "exact"
    /\ RunParamCell
    /\ UNCHANGED pc

\* A raising solver cell that leaves result without a value.
SolverRaisesStoringNone ==
    /\ pc \in DOMAIN After
    /\ "qubitOp" \in names
    /\ names' = names \cup SolverNames(pc) \cup {"result"}
    /\ result' = NoResult
    /\ raised' = "compute_minimum_eigenvalue"
    /\ pc' = After[pc]
    /\ UNCHANGED <<globals, optimalLine, fullResult, call, ret>>

\* A solver cell whose compute_minimum_eigenvalue(qubitOp) raises: the
\* statements ahead of it have run, the assignment to result and the
\* print_result call have not.
SolverRaises ==
    /\ pc \in DOMAIN After
    /\ "qubitOp" \in names
    /\ names' = names \cup SolverNames(pc)
    /\ raised' = "compute_minimum_eigenvalue"
    /\ pc' = After[pc]
    /\ UNCHANGED <<globals, result, optimalLine, fullResult, call, ret>>

\* print_result(result) called once more; ret is what it prints.
CallPrintResult ==
    /\ {"result"} \cup PrintNames \subseteq names
    /\ ~print_result_raises(result)
    /\ \E out \in print_result(result) : ret' = <<out>>
    /\ UNCHANGED <<notebook, call>>

NextKernel ==
    \/ FirstDataCell
    \/ ParamCell
    \/ HelperCell
    \/ ExactCell
    \/ VQECell
    \/ QAOACell
    \/ RerunDataCell
    \/ RerunParamCell
    \/ SolverRaises
    \/ CallPrintResult

SpecKernel == Init /\ [][NextKernel]_vars

-----------------------------------------------------------------------------
(* index_to_selection on its own.                                          *)

InitDecode ==
    /\ FreshKernel
    /\ call \in [i : 0 .. MaxIndex, num_assets : 0 .. MaxBits]
    /\ ret = <<>>

CallIndexToSelection ==
    /\ ret = <<>>
    /\ ret' = <<index_to_selection(call.i, call.num_assets)>>
    /\ UNCHANGED <<notebook, call>>

NextDecode == CallIndexToSelection

SpecDecode == InitDecode /\ [][NextDecode]_vars

-----------------------------------------------------------------------------
(* What the claims speak about.                                            *)

Printed == fullResult.by # "none"

Rows == fullResult.rows

\* The 'Optimal' line a solver cell has printed.
Optimal(s) == optimalLine[s][1]

\* The objective of a selection under the globals, without the penalty.
Obj(x) == Objective(x, mu, sigma, q)

\* The rows of least printed value.
LeastRows == {r \in DOMAIN Rows : \A t \in DOMAIN Rows : Rows[r].value <= Rows[t].value}

\* x selects num_assets // 2 assets and no selection of that size has a
\* smaller objective.
FixedSizeOptimal(x) ==
    /\ Sum(x) = num_assets \div 2
    /\ \A y \in Selections(num_assets) :
           Sum(y) = num_assets \div 2 => Obj(x) <= Obj(y)

\* The objective varies by less than num_assets over all selections.
SmallSpread ==
    \A x, y \in Selections(num_assets) : Obj(x) - Obj(y) < FourDecimals * num_assets

PenaltyPart(row) == row.value - Obj(row.x)

ExactPrinted == fullResult.by = "exact"

\* C4: after the exact solver, the selection of the 'Optimal' line has the
\* smallest value of all 2^num_assets rows, its row carries probability 1
\* and every other row probability 0.
C4_ExactOptimalCertain ==
    ExactPrinted =>
        \A r \in DOMAIN Rows :
            /\ Optimal("exact").value <= Rows[r].value
            /\ Rows[r].probability =
                   IF Rows[r].x = Optimal("exact").selection THEN ProbUnits ELSE 0

\* C4's case: two assets, and the exact solver's table giving the selection
\* of smallest value, which is not the all-zero one, probability 1 on the
\* first row.
C4_Witness ==
    /\ ExactPrinted
    /\ num_assets = 2
    /\ Rows[1].probability = ProbUnits
    /\ Rows[1].x = Optimal("exact").selection
    /\ Rows[1].value < 0

C7_RowsByFallingProbability ==
    Printed =>
        \A r \in DOMAIN Rows :
            r + 1 \in DOMAIN Rows => Rows[r].probability >= Rows[r + 1].probability

\* C7's case: a table of four rows whose probabilities fall from the first
\* row to the second and from the second to the third, printed for an
\* eigenstate whose probabilities are not in that order.
C7_Witness ==
    /\ Printed
    /\ Len(Rows) = 4
    /\ Rows[1].probability > Rows[2].probability
    /\ Rows[2].probability > Rows[3].probability
    /\ result.eigenstate.prob[0] < result.eigenstate.prob[1]

\* C8: print_result prints 2^num_assets rows, every selection of
\* {0,1}^num_assets is on exactly one of them, and the call returns (the
\* cell ends and the next one is due).
C8_RowsArePermutation ==
    Printed =>
        /\ Len(Rows) = Pow2(num_assets)
        /\ \A x \in Selections(num_assets) :
               Cardinality({r \in DOMAIN Rows : Rows[r].x = x}) = 1
        /\ pc # "exact"
        /\ fullResult.by = "vqe" => pc # "vqe"
        /\ fullResult.by = "qaoa" => pc = "done"

\* C8's case: the last cell has printed a table of four rows that is not in
\* the order of the indices.
C8_Witness ==
    /\ fullResult.by = "qaoa"
    /\ pc = "done"
    /\ Len(Rows) = 4
    /\ Rows[1].x = index_to_selection(2, 2)
    /\ Rows[2].x = index_to_selection(1, 2)

\* The solver cell whose table is shown.
Shown == fullResult.by

\* C9 as claimed: the selection and value of the 'Optimal' line are those of
\* the first row of the table, also when several basis states share the
\* greatest probability.
C9_OptimalIsFirstRow ==
    Printed =>
        /\ Optimal(Shown).selection = Rows[1].x
        /\ Optimal(Shown).value = Rows[1].value

\* C9 as amended: the selection of the 'Optimal' line is on a row with the
\* probability of the first row (the greatest); it is the first row's
\* selection, with the first row's value, when no second basis state has
\* that probability.
C9_OptimalIsAMostLikelyRow ==
    Printed =>
        /\ \E r \in DOMAIN Rows :
              /\ Rows[r].x = Optimal(Shown).selection
              /\ Rows[r].value = Optimal(Shown).value
              /\ Rows[r].probability = Rows[1].probability
        /\ Rows[2].probability < Rows[1].probability =>
              /\ Optimal(Shown).selection = Rows[1].x
              /\ Optimal(Shown).value = Rows[1].value

\* C9's case: a variational table of two assets with one most likely basis
\* state, which is not a palindrome, on the first row and on the 'Optimal'
\* line.
C9_Witness ==
    /\ fullResult.by = "vqe"
    /\ num_assets = 2
    /\ Rows[2].probability < Rows[1].probability
    /\ Rows[2].probability > 0
    /\ Rows[1].x = index_to_selection(1, 2)
    /\ Optimal("vqe").selection = Rows[1].x

\* C10: a selection has the same value in the tables of all solver runs
\* (from the table of one solver cell to the table of the next), and no
\* solver cell changes mu, sigma, q, budget, penalty, num_assets, qubitOp
\* or offset.
C10_ValuesIndependentOfSolver ==
    [][/\ (Printed /\ fullResult'.by # "none") =>
            \A r \in DOMAIN Rows : \A t \in DOMAIN fullResult'.rows :
                Rows[r].x = fullResult'.rows[t].x =>
                    Rows[r].value = fullResult'.rows[t].value
       /\ pc \in {"exact", "vqe", "qaoa"} => globals' = globals]_vars

\* C10's case: the three solver cells have run, the last two ended on
\* different selections, and the table of the last does not start with the
\* exact solver's selection.
C10_Witness ==
    /\ fullResult.by = "qaoa"
    /\ num_assets = 2
    /\ Optimal("vqe").selection # Optimal("qaoa").selection
    /\ Rows[1].x # Optimal("exact").selection
    /\ Rows[1].value # Rows[2].value

\* sigma is a square matrix of n rows.
Square(sig, n) ==
    /\ DOMAIN sig = 0 .. n - 1
    /\ \A i \in DOMAIN sig : DOMAIN sig[i] = 0 .. n - 1

\* C11: in notebook order, once the data cell has run mu has num_assets
\* entries and sigma is num_assets x num_assets; once the parameter cell has
\* run qubitOp.num_qubits = num_assets; and every eigenstate handed to
\* print_result has 2^num_assets amplitudes.
C11_QubitsAreAssets ==
    /\ "mu" \in names =>
           /\ num_assets \in AssetCounts
           /\ DOMAIN mu = 0 .. num_assets - 1
           /\ Square(sigma, num_assets)
    /\ "qubitOp" \in names =>
           /\ qubitOp.num_qubits = num_assets
           /\ DOMAIN qubitOp.diag = 0 .. Pow2(num_assets) - 1
    /\ "result" \in names =>
           /\ Len0(result.eigenstate.prob) = Pow2(num_assets)
           /\ Len(Rows) = Pow2(qubitOp.num_qubits)

\* C11's case: two assets, and the VQE cell, whose ansatz is built with
\* qubitOp.num_qubits, has handed print_result an eigenstate of four
\* amplitudes, more than one of them not 0.
C11_Witness ==
    /\ fullResult.by = "vqe"
    /\ num_assets = 2
    /\ qubitOp.num_qubits = 2
    /\ Len0(result.eigenstate.prob) = 4
    /\ Cardinality({k \in DOMAIN result.eigenstate.prob :
                        result.eigenstate.prob[k] > 0}) > 1

\* The solver cells that have printed.
HavePrinted == {s \in Solvers : optimalLine[s] # <<>>}

\* The eigenstates the solver of a cell can return for the operator.
EigenstatesOf(s) ==
    IF s = "exact" THEN ExactEigenstates(qubitOp) ELSE VariationalEigenstates(qubitOp)

\* C13: with the cells run once each in notebook order, a cell has run only
\* after the cells before it (data, parameters, helpers, exact, VQE, QAOA),
\* the table on display is the one of the last solver cell run, and it
\* shows the eigenstate that cell's solver returned, which is the value of
\* result: the probability on the row of index i is result's probability
\* of i, and the 'Optimal' line is read from the same eigenstate.
C13_EachTableShowsItsOwnSolver ==
    /\ "qubitOp" \in names => "mu" \in names
    /\ "print_result" \in names => "qubitOp" \in names
    /\ HavePrinted \in {{}, {"exact"}, {"exact", "vqe"}, Solvers}
    /\ HavePrinted # {} => "print_result" \in names
    /\ pc = "done" <=> HavePrinted = Solvers
    /\ Printed <=> HavePrinted # {}
    /\ Printed =>
           /\ Shown = (IF "qaoa" \in HavePrinted THEN "qaoa"
                       ELSE IF "vqe" \in HavePrinted THEN "vqe" ELSE "exact")
           /\ result.eigenstate \in EigenstatesOf(Shown)
           /\ \A i \in DOMAIN result.eigenstate.prob :
                  \E r \in DOMAIN Rows :
                      /\ Rows[r].x = index_to_selection(i, num_assets)
                      /\ Rows[r].probability = result.eigenstate.prob[i]
           /\ Optimal(Shown).selection \in sample_most_likely(result.eigenstate)

\* C13's case: all six cells have run, and the table of the QAOA cell shows
\* an eigenstate that is not a basis state and whose most likely selection
\* is neither the exact solver's nor the VQE cell's.
C13_Witness ==
    /\ pc = "done"
    /\ Shown = "qaoa"
    /\ num_assets = 2
    /\ Rows[1].probability < ProbUnits
    /\ Rows[1].probability > Rows[2].probability
    /\ Optimal("qaoa").selection # Optimal("vqe").selection
    /\ Optimal("qaoa").selection # Optimal("exact").selection
    /\ Optimal("vqe").selection # Optimal("exact").selection

-----------------------------------------------------------------------------
(* Claims about the notebook run by hand (SpecKernel).                     *)

\* C12: when compute_minimum_eigenvalue raises in a solver cell, the cell
\* ends there: print_result is not called, nothing is printed for that
\* solver (its 'Optimal' line stays empty and the table on display stays
\* the one of the last solver cell that printed), and result is what it
\* was, bound or not: the value the last successful solver cell assigned.
\* No global changes either.
C12_RaisingSolverKeepsResult ==
    [][(raised' = "compute_minimum_eigenvalue" /\ pc' # pc) =>
          /\ result' = result
          /\ ("result" \in names') = ("result" \in names)
          /\ optimalLine' = optimalLine
          /\ optimalLine'[pc] = <<>>
          /\ fullResult' = fullResult
          /\ ret' = ret
          /\ globals' = globals
          /\ pc' = After[pc]]_vars

\* C12's case: the exact cell printed, the VQE cell raised after binding
\* its solver, and result still holds the exact solver's eigenstate, shown
\* in the table.
C12_Witness ==
    /\ raised = "compute_minimum_eigenvalue"
    /\ pc = "qaoa"
    /\ "vqe" \in names
    /\ optimalLine["vqe"] = <<>>
    /\ Shown = "exact"
    /\ num_assets = 2
    /\ result.eigenstate \in ExactEigenstates(qubitOp)
    /\ Rows[1].probability = ProbUnits

\* C14 as claimed: whenever print_result(result) runs, whatever cells were
\* run before and run again, the globals it reads are the ones the operator
\* behind result was built from: the eigenstate has 2^num_assets
\* amplitudes, and every value printed is the solved operator's energy of
\* that selection plus the offset.
C14_PrintReadsTheSolvedProblem ==
    [][((fullResult' # fullResult \/ raised' = "portfolio_value") /\ pc' # pc) =>
          /\ qubitOp = get_operator(mu, sigma, q, budget, penalty).op
          /\ Len0(result'.eigenstate.prob) = Pow2(num_assets)
          /\ raised' = "none"
          /\ \A r \in DOMAIN fullResult'.rows :
                 \E i \in DOMAIN qubitOp.diag :
                     /\ fullResult'.rows[r].x = index_to_selection(i, num_assets)
                     /\ fullResult'.rows[r].value = qubitOp.diag[i] + offset]_vars

\* What a solver cell has just put on display, as one print_result output.
Display == [optimal |-> Optimal(Shown), rows |-> Rows]

\* C15: print_result changes nothing of the notebook (result, mu, sigma, q,
\* budget, penalty, num_assets and qubitOp among it), and a call can print
\* one thing only: a call by hand prints the one output there is for
\* result, and straight after a solver cell has printed, a second
\* print_result(result) prints that cell's 'Optimal' line and table again.
C15_PrintResultReadOnly ==
    [][/\ ret' # ret =>
              /\ notebook' = notebook
              /\ print_result(result) = {ret'[1]}
       /\ fullResult' # fullResult =>
              /\ globals' = globals
              /\ print_result(result') = {Display'}]_vars

\* C15's case: the VQE cell has printed for an eigenstate with more than
\* one most likely basis state, and print_result(result) called after it has
\* printed the same 'Optimal' line and the same table of four rows.
C15_Witness ==
    /\ Shown = "vqe"
    /\ pc = "qaoa"
    /\ num_assets = 2
    /\ Cardinality(MostLikely(result.eigenstate.prob)) > 1
    /\ ret = <<Display>>
    /\ Len(ret[1].rows) = 4

-----------------------------------------------------------------------------
(* Claims about index_to_selection on its own (SpecDecode).                *)

RECURSIVE Weighted(_, _)
\* x[0]*2^0 + ... + x[n-1]*2^(n-1)
Weighted(x, n) == IF n <= 0 THEN 0 ELSE x[n - 1] * Pow2(n - 1) + Weighted(x, n - 1)

\* C6: for num_assets >= 1 and 0 <= i < 2^num_assets the vector returned has
\* num_assets entries, entry k is bit k of i (entry 0 the least
\* significant), so the entries weighted by 2^k sum to i; no other index
\* below 2^num_assets decodes to the same vector, and the vector is the one
\* sample_most_likely decodes from the same index.
C6_DecodesLittleEndian ==
    (ret # <<>> /\ call.num_assets >= 1 /\ call.i < Pow2(call.num_assets)) =>
        LET x == ret[1]
            n == call.num_assets
        IN  /\ DOMAIN x = 0 .. n - 1
            /\ \A k \in 0 .. n - 1 : x[k] = (call.i \div Pow2(k)) % 2
            /\ Weighted(x, n) = call.i
            /\ \A j \in 0 .. Pow2(n) - 1 :
                   j # call.i => index_to_selection(j, n) # x
            /\ {x} = sample_most_likely(
                         [kind |-> "ndarray",
                          prob |-> [k \in 0 .. Pow2(n) - 1 |->
                                       IF k = call.i THEN ProbUnits ELSE 0]])

\* C6's case: index 6 decoded for four assets, which is 0 1 1 0.
C6_Witness ==
    /\ ret # <<>>
    /\ call = [i |-> 6, num_assets |-> 4]
    /\ ret[1][0] = 0 /\ ret[1][1] = 1 /\ ret[1][2] = 1 /\ ret[1][3] = 0

\* The number of binary digits of i: 1 for 0 and 1, 2 for 2 and 3, ...
BitLength(i) == CHOOSE d \in 1 .. i + 1 : Pow2(d) > i /\ (d = 1 \/ Pow2(d - 1) <= i)

\* C16: for every i >= 0 and num_assets >= 0 the call returns, and what it
\* returns has num_assets entries, each 0 or 1.  Below 2^num_assets the
\* padding decodes as 0 (every entry from the bit length of i on is 0); from
\* 2^num_assets on the string is longer than num_assets, rjust adds nothing
\* and the entries are the leading num_assets digits of i, entry 0 the last
\* of them.
C16_TotalAndShapePreserving ==
    /\ ret = <<>> => ENABLED CallIndexToSelection
    /\ ret # <<>> =>
           LET x == ret[1]
               n == call.num_assets
               i == call.i
               d == BitLength(i)
           IN  /\ DOMAIN x = 0 .. n - 1
               /\ \A k \in 0 .. n - 1 : x[k] \in {0, 1}
               /\ i < Pow2(n) => \A k \in 0 .. n - 1 : k >= d => x[k] = 0
               /\ i >= Pow2(n) =>
                      \A k \in 0 .. n - 1 : x[k] = (i \div Pow2(d - n + k)) % 2

\* C16's case: index 19 (10011) decoded for two assets gives the leading
\* digits 1 0, entry 0 last: x = [0 1].
C16_Witness ==
    /\ ret # <<>>
    /\ call = [i |-> 19, num_assets |-> 2]
    /\ DOMAIN ret[1] = {0, 1}
    /\ ret[1][0] = 0 /\ ret[1][1] = 1

\* C16's other cases: no asset at all gives the empty vector, and one digit
\* padded to three gives 1 0 0.
C16_WitnessPadded ==
    /\ ret # <<>>
    /\ \/ call = [i |-> 5, num_assets |-> 0] /\ ret[1] = <<>>
       \/ call = [i |-> 1, num_assets |-> 3] /\ ret[1][0] = 1 /\ ret[1][2] = 0

=============================================================================
